---- MODULE Spec2Model ----
(***************************************************************************)
(* Model of the Wallet engine of bitcoin-wallet (src/src/wallet.js, first *)
(* definition, lines 1-176).  Every store operation (get, put, batch) and *)
(* crypto.randomBytes is asynchronous: it is issued by one step and its   *)
(* callback is a later step.  An 'error' listener is assumed attached.    *)
(* The FilterStream of src/src/filterStream.js is modelled beside it: one  *)
(* stream, one block, each key-store get a step of its own.                *)
(***************************************************************************)
EXTENDS Integers, Sequences, FiniteSets, TLC

\* ---------------------------------------------------------------- bounds
MaxLookAheadOpt == 2
MaxCalls == 2
MaxBlocks == 2
MaxTxs == 2

\* ------------------------------------------------------ program constants
DefaultLookAhead == 100

Wallets == {1, 2}
MetaKeys == {"sync", "info", "key"}
Seeds == {"s1", "s2"}
Undefined == [t |-> "undefined"]

ParamProps ==
  {"bip32", "bip32.public", "bip32.private", "messagePrefix",
   "pubKeyHash", "scriptHash", "wif", "dustThreshold"}

\* params as handed to the constructor: absent altogether, complete, one
\* property short, or carrying no property at all
ParamCases ==
  {[given |-> FALSE, props |-> {}]} \cup
  {[given |-> TRUE, props |-> ParamProps \ S] :
      S \in {{}} \cup {{p} : p \in ParamProps} \cup {ParamProps}}

\* opts.lookAhead (0 = not given) and opts.date (<<>> = not given)
DefaultOpts == [lookAhead |-> 0, date |-> <<>>]
OneAhead == [lookAhead |-> 1, date |-> <<>>]
OptsCases ==
  {[lookAhead |-> l, date |-> <<>>] : l \in 0..MaxLookAheadOpt} \cup
  {[lookAhead |-> 1, date |-> <<"d1">>]}

PkgVersion == "pkg.version"

\* --------------------------------------------------------- pure functions
assertValidParamsNoWif(params) ==
  IF ~params.given THEN "params"
  ELSE IF "bip32" \notin params.props THEN "bip32"
  ELSE IF "messagePrefix" \notin params.props THEN "messagePrefix"
  ELSE IF "bip32.public" \notin params.props THEN "bip32.public"
  ELSE IF "bip32.private" \notin params.props THEN "bip32.private"
  ELSE IF "pubKeyHash" \notin params.props THEN "pubKeyHash"
  ELSE IF "scriptHash" \notin params.props THEN "scriptHash"
  ELSE IF "dustThreshold" \notin params.props THEN "dustThreshold"
  ELSE "ok"

\* the name of the first check that throws, or "ok"
assertValidParams(params) ==
  IF ~params.given THEN "params"
  ELSE IF "bip32" \notin params.props THEN "bip32"
  ELSE IF "messagePrefix" \notin params.props THEN "messagePrefix"
  ELSE IF "bip32.public" \notin params.props THEN "bip32.public"
  ELSE IF "bip32.private" \notin params.props THEN "bip32.private"
  ELSE IF "pubKeyHash" \notin params.props THEN "pubKeyHash"
  ELSE IF "scriptHash" \notin params.props THEN "scriptHash"
  ELSE IF "wif" \notin params.props THEN "wif"
  ELSE IF "dustThreshold" \notin params.props THEN "dustThreshold"
  ELSE "ok"

\* opts.lookAhead || 100
LookAheadOf(opts) ==
  IF opts.lookAhead = 0 THEN DefaultLookAhead ELSE opts.lookAhead

\* opts.date != null ? opts.date : Date.now()
InfoDate(opts) ==
  IF opts.date # <<>> THEN opts.date[1] ELSE "now"

ToBase64(bytes) == <<"base64", bytes>>
FromBase64(str) == str[2]

\* HDNode.fromSeedBuffer / getPublicKeyBuffer / deriveHardened(0) / derive(i)
FromSeedBuffer(seed) == [seed |-> seed, path |-> <<>>]
DeriveHardened(node, i) == [node EXCEPT !.path = Append(@, <<"h", i>>)]
Derive(node, i) == [node EXCEPT !.path = Append(@, <<"n", i>>)]
GetPublicKeyBuffer(node) == <<"pub", node.seed, node.path>>
GetIdentifier(node) == <<"id", node.seed, node.path>>

\* the cursor built by _initializeMeta
FreshSync ==
  [t |-> "sync", height |-> 0, hash |-> <<>>, derived |-> 0, seen |-> 0]

FreshInfo(opts) ==
  [t |-> "info", date |-> InfoDate(opts), version |-> PkgVersion]

KeyRecord(seed) ==
  [t |-> "key",
   pubKey |-> ToBase64(GetPublicKeyBuffer(FromSeedBuffer(seed))),
   seed |-> ToBase64(seed)]

BatchOpsNoKey(s, i, seed) ==
  {[key |-> "sync", value |-> s], [key |-> "info", value |-> i]}

\* the three puts handed to meta.batch
BatchOps(s, i, seed) ==
  {[key |-> "sync", value |-> s], [key |-> "info", value |-> i],
   [key |-> "key", value |-> KeyRecord(seed)]}

\* a committed batch: every put of ops applied to the meta section m
ApplyBatch(m, ops) ==
  [k \in MetaKeys |->
     IF \E o \in ops : o.key = k
     THEN (CHOOSE o \in ops : o.key = k).value
     ELSE m[k]]

InitCheckIgnoreExisting(res) == "ok"

\* the iteratee of _initializeMeta on a get that returned without I/O error
InitCheck(res) == IF res # Undefined THEN "existing" ELSE "ok"

LoadedSyncFresh(res) == FreshSync

\* this.sync = res[0]
LoadedSync(res) == res["sync"]

OnceUnguarded(called) == TRUE

\* async's guard on the final callback of map and each: it runs only if it
\* has not run before
Once(called) == ~called

\* keyIndex of _deriveAll
KeyIndex(s, la) == s.seen + la

\* ------------------------------------------------------------------ blocks
NoTxs == <<>>
TxOut == <<[id |-> "t1", ins |-> {}, outs |-> {0}]>>
TxSpend == <<[id |-> "t2", ins |-> {<<"t1", 0>>}, outs |-> {}]>>
TxLists == {NoTxs, TxOut, TxSpend}

\* two heights, so that blocks can come in ascending order, in descending
\* order, or twice at one height
Heights == {1, 2}

Blocks ==
  {[height |-> h, hash |-> <<"H", h>>, transactions |-> txs] :
      h \in Heights, txs \in TxLists}

\* the outputs a block's relevant transactions create and spend
BlockOuts(b) ==
  UNION {{<<b.transactions[i].id, o>> : o \in b.transactions[i].outs} :
            i \in DOMAIN b.transactions}
BlockIns(b) == UNION {b.transactions[i].ins : i \in DOMAIN b.transactions}

\* ------------------------------------------------------------ FilterStream
\* two keys a wallet can own; each is looked up by its public key (inputs)
\* and by its script hash (outputs)
KeyNames == {"A", "B"}
PubKeyOf(k) == <<"pubkey", k>>
ScriptHashOf(k) == <<"scripthash", k>>

NaN == [t |-> "NaN"]
Num(i) == [t |-> "number", n |-> i]

\* the derivation index the key store holds for an owned key
StoredIndex(k) == IF k = "A" THEN Num(0) ELSE Num(1)

\* the contents of the key store ('k' sublevel): base64 key -> index, for the
\* owned keys; a get of any other key ends in notFound (Undefined)
LookupKeys ==
  {ToBase64(PubKeyOf(k)) : k \in KeyNames} \cup
  {ToBase64(ScriptHashOf(k)) : k \in KeyNames}
KeyStoreOf(owned) ==
  [s \in LookupKeys |->
     IF \E k \in owned : s \in {ToBase64(PubKeyOf(k)), ToBase64(ScriptHashOf(k))}
     THEN StoredIndex(CHOOSE k \in owned :
                        s \in {ToBase64(PubKeyOf(k)), ToBase64(ScriptHashOf(k))})
     ELSE Undefined]
KeyStores == {KeyStoreOf(owned) : owned \in SUBSET KeyNames}

\* scripts: an input script is a script-hash input (with a redeem script
\* that is a pay-to-pubkey output or something else) or another script; an
\* output script is a script-hash output or another script
IsScriptHashInput(script) == script.kind = "scriptHashInput"
IsPubKeyOutput(redeem) == redeem = "pubkey"
IsScriptHashOutput(script) == script.kind = "scriptHashOutput"

\* getInputKey / getOutputKey go to the key store (instead of cb(null, null))
InputLooksUp(input) ==
  IsScriptHashInput(input.script) /\ IsPubKeyOutput(input.script.redeem)
OutputLooksUp(output) == IsScriptHashOutput(output.script)

\* an input spending output 0 of transaction prev, and an output
In(prev, script) == [hash |-> prev, index |-> 0, script |-> script]
Out(script) == [script |-> script, value |-> "v"]

InKey(prev, k) ==
  In(prev, [kind |-> "scriptHashInput", redeem |-> "pubkey", data |-> PubKeyOf(k)])
InMultisig(prev) ==
  In(prev, [kind |-> "scriptHashInput", redeem |-> "multisig", data |-> <<>>])
InOther(prev) == In(prev, [kind |-> "other", redeem |-> "none", data |-> <<>>])
OutKey(k) == Out([kind |-> "scriptHashOutput", data |-> ScriptHashOf(k)])
OutOther == Out([kind |-> "other", data |-> <<>>])

\* transactions: two key-spending inputs; two script-hash outputs behind an
\* input of another shape; nothing that is looked up
FilterTxs ==
  {[id |-> "f1", ins |-> <<InKey("p1", "A"), InKey("p2", "B")>>, outs |-> <<>>],
   [id |-> "f2", ins |-> <<InOther("p3")>>, outs |-> <<OutKey("A"), OutKey("B")>>],
   [id |-> "f3", ins |-> <<InMultisig("p4")>>, outs |-> <<OutOther>>]}

\* the positions an input or output of these transactions can stand at
Positions == {1, 2}

\* blocks of up to MaxTxs distinct transactions
FilterBlocks ==
  {[hash |-> <<"H", 1>>, transactions |-> txs] :
      txs \in {q \in UNION {[1..n -> FilterTxs] : n \in 0..MaxTxs} :
                 \A i, j \in DOMAIN q : i # j => q[i] # q[j]}}

\* Object.assign(target, source)
ObjectAssign(target, source) ==
  [f \in DOMAIN target \cup DOMAIN source |->
     IF f \in DOMAIN source THEN source[f] ELSE target[f]]

\* +index
ToNumber(v) == IF v = Undefined THEN NaN ELSE v

\* what this._derive(index) can do.  FilterStream defines no _derive: the
\* call throws unless the stream was handed one (the wallet's derive); with
\* one, a number yields its key and NaN yields a key or throws
Throws == [t |-> "throws"]
HdKey(num) == [t |-> "hdkey", index |-> num]
FilterDerive(has, num) ==
  IF ~has THEN {Throws}
  ELSE IF num = NaN THEN {Throws, HdKey(num)}
  ELSE {HdKey(num)}

RetainedInsOnly(relevant) == relevant.ins # <<>>

\* _transform keeps a transaction unless both lists are empty
Retained(relevant) == relevant.ins # <<>> \/ relevant.outs # <<>>

\* lookups of a transaction's inputs and outputs (positions from 1)
InLookups(tx) == {i \in DOMAIN tx.ins : InputLooksUp(tx.ins[i])}
OutLookups(tx) == {i \in DOMAIN tx.outs : OutputLooksUp(tx.outs[i])}

\* getRelevant's second forEachOf, entered with the inputs found: it ends at
\* once if no output is looked up
StartOuts(tx, ins) ==
  [stage |-> IF OutLookups(tx) = {} THEN "done" ELSE "outs",
   failed |-> FALSE, open |-> OutLookups(tx), inflight |-> OutLookups(tx),
   ins |-> ins, outs |-> <<>>]

\* getRelevant(tx): inputs and outputs that are not looked up call back at
\* once and find nothing
StartTx(tx) ==
  IF InLookups(tx) = {} THEN StartOuts(tx, <<>>)
  ELSE [stage |-> "ins", failed |-> FALSE, open |-> InLookups(tx),
        inflight |-> InLookups(tx), ins |-> <<>>, outs |-> <<>>]

NoFilterStream ==
  [pc |-> "new", keys |-> Undefined, hasDerive |-> FALSE, block |-> Undefined,
   txs |-> <<>>, relevantTxs |-> <<>>, called |-> FALSE, result |-> Undefined,
   thrown |-> 0]

\* the final callback of _transform's async.each: an error at once, the
\* block and its relevant transactions once every transaction is through
TransformSettled(f) ==
  IF ~Once(f.called) THEN f
  ELSE IF \E t \in DOMAIN f.txs : f.txs[t].failed
  THEN [f EXCEPT !.called = TRUE, !.pc = "done",
                 !.result = [err |-> TRUE, block |-> Undefined, relevant |-> <<>>]]
  ELSE IF \A t \in DOMAIN f.txs : f.txs[t].stage = "done"
  THEN [f EXCEPT !.called = TRUE, !.pc = "done",
                 !.result = [err |-> FALSE, block |-> f.block,
                             relevant |-> f.relevantTxs]]
  ELSE f

\* getRelevant's callback into _transform's iteratee for transaction t
TxThrough(f, t) ==
  LET relevant == [ins |-> f.txs[t].ins, outs |-> f.txs[t].outs]
  IN TransformSettled(
       IF Retained(relevant)
       THEN [f EXCEPT !.relevantTxs =
               Append(@, [tx |-> f.block.transactions[t], relevant |-> relevant])]
       ELSE f)

\* a lookup of transaction t at position i returned and its callback ran to
\* the end: entries are pushed on the list of its side and the forEachOf
\* item is done
ItemDone(f, t, i, entries) ==
  LET st == f.txs[t]
      side == st.stage
      st1 == [st EXCEPT !.inflight = @ \ {i}, !.open = @ \ {i},
                        ![side] = @ \o entries]
  IN IF st.failed \/ st1.open # {}
     THEN [f EXCEPT !.txs[t] = st1]
     ELSE IF side = "ins"
     THEN LET st2 == StartOuts(f.block.transactions[t], st1.ins)
              f2 == [f EXCEPT !.txs[t] = st2]
          IN IF st2.stage = "done" THEN TxThrough(f2, t) ELSE f2
     ELSE TxThrough([f EXCEPT !.txs[t] = [st1 EXCEPT !.stage = "done"]], t)

\* this._derive threw inside the get's callback: the item's callback is
\* never called
ItemThrew(f, t, i) ==
  [f EXCEPT !.txs[t].inflight = @ \ {i}, !.thrown = @ + 1]

\* a lookup failed with an error other than notFound: cb(err) up to
\* _transform's final callback
ItemFailed(f, t, i) ==
  LET st == f.txs[t]
  IN TransformSettled(
       [f EXCEPT !.txs[t] = [st EXCEPT !.inflight = @ \ {i}, !.open = @ \ {i},
                                       !.failed = TRUE]])

\* ------------------------------------------------------------------- state
VARIABLES
  store,        \* the meta sublevel 'm': key -> record or Undefined
  sections,     \* the sublevels 'u', 't', 'k', 'b'
  pc,           \* where each wallet's startup stands
  cfg,          \* the constructor's arguments
  lookAhead,    \* this.lookAhead
  sync,         \* this.sync
  info,         \* this.info
  key,          \* this.key (the root HD node)
  ready,        \* this.ready
  loadPending,  \* gets of _loadMeta's async.map still in flight
  loadRes,      \* async.map's results array
  loadCalled,   \* async.map's final callback has run
  initPending,  \* gets of _initializeMeta's async.each still in flight
  initCalled,   \* async.each's final callback has run
  batchOps,     \* the meta.batch in flight ({} when none)
  waiters,      \* filterElements calls parked by once('ready')
  putQ,         \* meta.put('sync') calls of _deriveAll in flight
  feDone,       \* what filterElements handed to its callers, in order
  feCalls,      \* number of filterElements calls made
  inflight,     \* the block _processBlock was called with and has not acknowledged
  buffered,     \* blocks the write stream holds behind it
  acked,        \* number of blocks whose callback ran
  written,      \* number of blocks written to the stream
  emitted,      \* count of 'ready' and 'error' events
  uncaught,     \* exceptions thrown out of a store callback
  fs,           \* the FilterStream: its key store, block and lookups
  hist          \* history: observations the properties are stated on

vars ==
  <<store, sections, pc, cfg, lookAhead, sync, info, key, ready, loadPending,
    loadRes, loadCalled, initPending, initCalled, batchOps, waiters, putQ,
    feDone, feCalls, inflight, buffered, acked, written, emitted, uncaught,
    fs, hist>>

walletVars ==
  <<store, sections, pc, cfg, lookAhead, sync, info, key, ready, loadPending,
    loadRes, loadCalled, initPending, initCalled, batchOps, waiters, putQ,
    feDone, feCalls, inflight, buffered, acked, written, emitted, uncaught,
    hist>>

streamVars == <<inflight, buffered, acked, written, sections>>
feVars == <<waiters, putQ, feDone, feCalls>>
loadVars == <<loadPending, loadRes, loadCalled>>
initVars == <<initPending, initCalled>>
memVars == <<sync, info, key, ready, lookAhead>>

\* a cursor in the persisted shape that has moved: one block seen, one key
\* used, look-ahead of one beyond it
AdvancedSync ==
  [t |-> "sync", height |-> 1, hash |-> <<"H", 1>>, derived |-> 2, seen |-> 1]

\* records an earlier run can have left in the store
StoredSyncs ==
  {[FreshSync EXCEPT !.derived = d] :
      d \in {0} \cup {LookAheadOf(o) : o \in OptsCases}} \cup {AdvancedSync}
StoredInfos == {FreshInfo(DefaultOpts)}
StoredKeys == {KeyRecord("s1")}

InitialStores ==
  {m \in [MetaKeys -> StoredSyncs \cup StoredInfos \cup StoredKeys \cup {Undefined}] :
      /\ m["sync"] \in StoredSyncs \cup {Undefined}
      /\ m["info"] \in StoredInfos \cup {Undefined}
      /\ m["key"] \in StoredKeys \cup {Undefined}}

NoHist ==
  [ioFailed |-> FALSE, ioIssued |-> FALSE, initRan |-> FALSE,
   seeds |-> 0, batches |-> 0, readyCursor |-> Undefined,
   lastDone |-> Undefined, parked |-> 0]

InitWith(stores) ==
  /\ store \in stores
  /\ sections = [u |-> {}, t |-> {}, k |-> {}, b |-> {}]
  /\ pc = [w \in Wallets |-> "new"]
  /\ cfg = [w \in Wallets |-> Undefined]
  /\ lookAhead = [w \in Wallets |-> 0]
  /\ sync = [w \in Wallets |-> Undefined]
  /\ info = [w \in Wallets |-> Undefined]
  /\ key = [w \in Wallets |-> Undefined]
  /\ ready = [w \in Wallets |-> FALSE]
  /\ loadPending = [w \in Wallets |-> {}]
  /\ loadRes = [w \in Wallets |-> [k \in MetaKeys |-> Undefined]]
  /\ loadCalled = [w \in Wallets |-> FALSE]
  /\ initPending = [w \in Wallets |-> {}]
  /\ initCalled = [w \in Wallets |-> FALSE]
  /\ batchOps = [w \in Wallets |-> {}]
  /\ waiters = [w \in Wallets |-> 0]
  /\ putQ = [w \in Wallets |-> <<>>]
  /\ feDone = [w \in Wallets |-> <<>>]
  /\ feCalls = [w \in Wallets |-> 0]
  /\ inflight = [w \in Wallets |-> Undefined]
  /\ buffered = [w \in Wallets |-> <<>>]
  /\ acked = [w \in Wallets |-> 0]
  /\ written = [w \in Wallets |-> 0]
  /\ emitted = [w \in Wallets |-> [ready |-> 0, error |-> 0]]
  /\ uncaught = [w \in Wallets |-> 0]
  /\ fs = NoFilterStream
  /\ hist = [store0 |-> store, expectedUnspent |-> {},
             w |-> [w \in Wallets |-> NoHist]]

Init == InitWith(InitialStores)

\* ------------------------------------------------------- shared fragments
\* cb(err) of the constructor's callback: this._error(err)
Fail(w) ==
  /\ pc' = [pc EXCEPT ![w] = "failed"]
  /\ emitted' = [emitted EXCEPT ![w].error = @ + 1]

\* the cursor after the 'ready' listeners ran: each parked filterElements
\* runs _deriveAll, which sets keys.derived before it issues its put
ReadySync(s, la, n) ==
  IF n > 0 THEN [s EXCEPT !.derived = KeyIndex(s, la)] ELSE s

BecomeReadyDroppingListeners(w, s, h) ==
  /\ sync' = [sync EXCEPT ![w] = s]
  /\ ready' = [ready EXCEPT ![w] = TRUE]
  /\ pc' = [pc EXCEPT ![w] = "ready"]
  /\ emitted' = [emitted EXCEPT ![w].ready = @ + 1]
  /\ waiters' = [waiters EXCEPT ![w] = 0]
  /\ putQ' = putQ
  /\ hist' = [h EXCEPT !.w[w].readyCursor = s]

\* cb(null) of the constructor's callback, with cursor s just assigned and
\* h the history so far: this.ready = true, emit('ready'), and the
\* listeners once('ready') registered run inside the emit
BecomeReady(w, s, h) ==
  LET n == waiters[w]
      s2 == ReadySync(s, lookAhead[w], n)
  IN /\ sync' = [sync EXCEPT ![w] = s2]
     /\ ready' = [ready EXCEPT ![w] = TRUE]
     /\ pc' = [pc EXCEPT ![w] = "ready"]
     /\ emitted' = [emitted EXCEPT ![w].ready = @ + 1]
     /\ waiters' = [waiters EXCEPT ![w] = 0]
     /\ putQ' = [putQ EXCEPT ![w] =
                   @ \o [i \in 1..n |-> [value |-> s2, n |-> KeyIndex(s, lookAhead[w])]]]
     /\ hist' = [h EXCEPT !.w[w].readyCursor = s]

\* ----------------------------------------------------------- construction
\* new Wallet(params, db, opts), up to the return of the constructor
Construct(w, params, db, opts) ==
  /\ pc[w] = "new"
  /\ cfg' = [cfg EXCEPT ![w] = [params |-> params, db |-> db, opts |-> opts]]
  /\ IF assertValidParams(params) # "ok" \/ ~db
     THEN /\ pc' = [pc EXCEPT ![w] = "threw"]
          /\ UNCHANGED <<lookAhead, loadPending, hist>>
     ELSE /\ pc' = [pc EXCEPT ![w] = "loading"]
          /\ lookAhead' = [lookAhead EXCEPT ![w] = LookAheadOf(opts)]
          /\ loadPending' = [loadPending EXCEPT ![w] = MetaKeys]
          /\ hist' = [hist EXCEPT !.w[w].ioIssued = TRUE]
  /\ UNCHANGED fs
  /\ UNCHANGED <<store, sync, info, key, ready, loadRes, loadCalled, initVars,
                 batchOps, feVars, streamVars, emitted, uncaught>>

\* -------------------------------------------------------------- _loadMeta
\* a get of async.map returns a value
LoadGetValue(w, k) ==
  /\ k \in loadPending[w]
  /\ store[k] # Undefined
  /\ loadPending' = [loadPending EXCEPT ![w] = @ \ {k}]
  /\ loadRes' = [loadRes EXCEPT ![w][k] = store[k]]
  /\ IF loadPending[w] = {k} /\ Once(loadCalled[w])
     THEN /\ loadCalled' = [loadCalled EXCEPT ![w] = TRUE]
          /\ info' = [info EXCEPT ![w] = loadRes'[w]["info"]]
          /\ key' = [key EXCEPT ![w] =
                       FromSeedBuffer(FromBase64(loadRes'[w]["key"].seed))]
          /\ BecomeReady(w, LoadedSync(loadRes'[w]), hist)
     ELSE UNCHANGED <<loadCalled, info, key, sync, ready, pc, emitted,
                      waiters, putQ, hist>>
  /\ UNCHANGED fs
  /\ UNCHANGED <<store, cfg, lookAhead, initVars, batchOps, feDone, feCalls,
                 streamVars, uncaught>>

\* a get of async.map returns err.notFound: the first error to arrive
\* starts _initializeMeta, which issues its three gets
LoadGetNotFound(w, k) ==
  /\ k \in loadPending[w]
  /\ store[k] = Undefined
  /\ loadPending' = [loadPending EXCEPT ![w] = @ \ {k}]
  /\ IF Once(loadCalled[w])
     THEN /\ loadCalled' = [loadCalled EXCEPT ![w] = TRUE]
          /\ pc' = [pc EXCEPT ![w] = "init"]
          /\ initPending' = [initPending EXCEPT ![w] = MetaKeys]
          /\ hist' = [hist EXCEPT !.w[w].initRan = TRUE]
     ELSE UNCHANGED <<loadCalled, pc, initPending, hist>>
  /\ UNCHANGED fs
  /\ UNCHANGED <<store, cfg, memVars, loadRes, initCalled, batchOps, feVars,
                 streamVars, emitted, uncaught>>

\* a get of async.map fails with an error other than notFound
LoadGetIoError(w, k) ==
  /\ k \in loadPending[w]
  /\ loadPending' = [loadPending EXCEPT ![w] = @ \ {k}]
  /\ hist' = [hist EXCEPT !.w[w].ioFailed = TRUE]
  /\ IF Once(loadCalled[w])
     THEN /\ loadCalled' = [loadCalled EXCEPT ![w] = TRUE]
          /\ Fail(w)
     ELSE UNCHANGED <<loadCalled, pc, emitted>>
  /\ UNCHANGED fs
  /\ UNCHANGED <<store, cfg, memVars, loadRes, initVars, batchOps, feVars,
                 streamVars, uncaught>>

\* -------------------------------------------------------- _initializeMeta
\* a get of the existence check returns (a value, or err.notFound)
InitGetReturn(w, k) ==
  /\ k \in initPending[w]
  /\ initPending' = [initPending EXCEPT ![w] = @ \ {k}]
  /\ IF InitCheck(store[k]) = "existing"
     THEN \* cb(new Error('Existing meta key')) and then cb(null): the second
          \* call of the same callback throws out of the get's callback
          /\ uncaught' = [uncaught EXCEPT ![w] = @ + 1]
          /\ IF Once(initCalled[w])
             THEN /\ initCalled' = [initCalled EXCEPT ![w] = TRUE]
                  /\ Fail(w)
             ELSE UNCHANGED <<initCalled, pc, emitted>>
          /\ UNCHANGED <<sync, info, hist>>
     ELSE /\ UNCHANGED <<uncaught, emitted>>
          /\ IF initPending[w] = {k} /\ Once(initCalled[w])
             THEN \* all three absent: build cursor and info, ask for a seed
                  /\ initCalled' = [initCalled EXCEPT ![w] = TRUE]
                  /\ sync' = [sync EXCEPT ![w] = FreshSync]
                  /\ info' = [info EXCEPT ![w] = FreshInfo(cfg[w].opts)]
                  /\ pc' = [pc EXCEPT ![w] = "seeding"]
                  /\ hist' = [hist EXCEPT !.w[w].seeds = @ + 1]
             ELSE UNCHANGED <<initCalled, sync, info, pc, hist>>
  /\ UNCHANGED fs
  /\ UNCHANGED <<store, cfg, key, ready, lookAhead, loadVars, batchOps,
                 feVars, streamVars>>

\* a get of the existence check fails with an error other than notFound
InitGetIoError(w, k) ==
  /\ k \in initPending[w]
  /\ initPending' = [initPending EXCEPT ![w] = @ \ {k}]
  /\ hist' = [hist EXCEPT !.w[w].ioFailed = TRUE]
  /\ IF Once(initCalled[w])
     THEN /\ initCalled' = [initCalled EXCEPT ![w] = TRUE]
          /\ Fail(w)
     ELSE UNCHANGED <<initCalled, pc, emitted>>
  /\ UNCHANGED fs
  /\ UNCHANGED <<store, cfg, memVars, loadVars, batchOps, feVars,
                 streamVars, uncaught>>

\* crypto.randomBytes hands over a seed: the key is built and the batch
\* of three puts is issued
RandomBytesOk(w, seed) ==
  /\ pc[w] = "seeding"
  /\ key' = [key EXCEPT ![w] = FromSeedBuffer(seed)]
  /\ batchOps' = [batchOps EXCEPT ![w] = BatchOps(sync[w], info[w], seed)]
  /\ pc' = [pc EXCEPT ![w] = "writing"]
  /\ hist' = [hist EXCEPT !.w[w].batches = @ + 1]
  /\ UNCHANGED fs
  /\ UNCHANGED <<store, cfg, sync, info, ready, lookAhead, loadVars,
                 initVars, feVars, streamVars, emitted, uncaught>>

\* crypto.randomBytes fails
RandomBytesErr(w) ==
  /\ pc[w] = "seeding"
  /\ hist' = [hist EXCEPT !.w[w].ioFailed = TRUE]
  /\ Fail(w)
  /\ UNCHANGED fs
  /\ UNCHANGED <<store, cfg, memVars, loadVars, initVars, batchOps, feVars,
                 streamVars, uncaught>>

\* the batch commits and its callback (the constructor's) runs
BatchOk(w) ==
  /\ pc[w] = "writing"
  /\ store' = ApplyBatch(store, batchOps[w])
  /\ batchOps' = [batchOps EXCEPT ![w] = {}]
  /\ BecomeReady(w, sync[w], hist)
  /\ UNCHANGED fs
  /\ UNCHANGED <<cfg, info, key, lookAhead, loadVars, initVars, feDone,
                 feCalls, streamVars, uncaught>>

\* the batch fails: nothing of it is written
BatchErr(w) ==
  /\ pc[w] = "writing"
  /\ batchOps' = [batchOps EXCEPT ![w] = {}]
  /\ hist' = [hist EXCEPT !.w[w].ioFailed = TRUE]
  /\ Fail(w)
  /\ UNCHANGED fs
  /\ UNCHANGED <<store, cfg, memVars, loadVars, initVars, feVars,
                 streamVars, uncaught>>

\* ----------------------------------------------------------- key material
\* this.deriveKey = this.key.deriveHardened(0)
DeriveKey(w) == DeriveHardened(key[w], 0)

DeriveAllFromOne(node, n) == [i \in 1..n |-> Derive(node, i)]

\* the array _deriveAll builds: child i of deriveKey for i in [0, n)
DeriveAll(node, n) == [i \in 1..n |-> Derive(node, i - 1)]

\* _keyElements
KeyElements(node) == <<GetPublicKeyBuffer(node), GetIdentifier(node)>>

\* [].concat.apply([], keys.map(_keyElements))
RECURSIVE Flatten(_)
Flatten(lists) ==
  IF lists = <<>> THEN <<>>
  ELSE IF Len(lists) = 1 THEN lists[1]
  ELSE LET h == Len(lists) \div 2
       IN Flatten(SubSeq(lists, 1, h)) \o Flatten(SubSeq(lists, h + 1, Len(lists)))

Elements(node, n) ==
  LET keys == DeriveAll(node, n)
  IN Flatten([i \in 1..n |-> KeyElements(keys[i])])

RemoveAt(q, i) ==
  [j \in 1..(Len(q) - 1) |-> IF j < i THEN q[j] ELSE q[j + 1]]

\* ---------------------------------------------------------- filterElements
\* filterElements(cb): onceReady runs _deriveAll at once on a ready wallet
\* (keys.derived is set and the put of the cursor issued), and parks the
\* call on once('ready') otherwise
FilterElements(w) ==
  /\ pc[w] \notin {"new", "threw"}
  /\ feCalls[w] < MaxCalls
  /\ feCalls' = [feCalls EXCEPT ![w] = @ + 1]
  /\ IF ready[w]
     THEN /\ sync' = [sync EXCEPT ![w].derived = KeyIndex(sync[w], lookAhead[w])]
          /\ putQ' = [putQ EXCEPT ![w] =
                        Append(@, [value |-> sync'[w],
                                   n |-> KeyIndex(sync[w], lookAhead[w])])]
          /\ UNCHANGED <<waiters, hist>>
     ELSE /\ waiters' = [waiters EXCEPT ![w] = @ + 1]
          /\ hist' = [hist EXCEPT !.w[w].parked = @ + 1]
          /\ UNCHANGED <<sync, putQ>>
  /\ UNCHANGED fs
  /\ UNCHANGED <<store, pc, cfg, info, key, ready, lookAhead, loadVars,
                 initVars, batchOps, feDone, streamVars, emitted, uncaught>>

\* the put of _deriveAll commits: cb(null, derived), and filterElements
\* hands the flattened elements of the n derived keys to its caller
PutOk(w, i) ==
  /\ i \in DOMAIN putQ[w]
  /\ store' = [store EXCEPT !["sync"] = putQ[w][i].value]
  /\ putQ' = [putQ EXCEPT ![w] = RemoveAt(@, i)]
  /\ feDone' = [feDone EXCEPT ![w] =
                   Append(@, [err |-> FALSE, n |-> putQ[w][i].n,
                              elements |-> Elements(DeriveKey(w), putQ[w][i].n)])]
  /\ UNCHANGED fs
  /\ UNCHANGED <<pc, cfg, memVars, loadVars, initVars, batchOps, waiters,
                 feCalls, streamVars, emitted, uncaught, hist>>

\* the put of _deriveAll fails: cb(err)
PutErr(w, i) ==
  /\ i \in DOMAIN putQ[w]
  /\ putQ' = [putQ EXCEPT ![w] = RemoveAt(@, i)]
  /\ feDone' = [feDone EXCEPT ![w] =
                   Append(@, [err |-> TRUE, n |-> 0, elements |-> <<>>])]
  /\ UNCHANGED fs
  /\ UNCHANGED <<store, pc, cfg, memVars, loadVars, initVars, batchOps,
                 waiters, feCalls, streamVars, emitted, uncaught, hist>>

\* ------------------------------------------------------------ write stream
\* the outputs the spec's ledger would hold after block b
LedgerAfter(unspent, b) == (unspent \ BlockIns(b)) \cup BlockOuts(b)

\* a block is written to createWriteStream() of a ready wallet: the stream
\* hands it to _processBlock unless an earlier block is unacknowledged.
\* async.each over no transactions calls cb at once; over one or more it
\* never does, since the iteratee never calls its callback
StreamWrite(w, b) ==
  /\ ready[w]
  /\ written[w] < MaxBlocks
  /\ written' = [written EXCEPT ![w] = @ + 1]
  /\ IF inflight[w] # Undefined
     THEN /\ buffered' = [buffered EXCEPT ![w] = Append(@, b)]
          /\ UNCHANGED <<inflight, acked, hist>>
     ELSE /\ UNCHANGED buffered
          /\ IF b.transactions = <<>>
             THEN /\ acked' = [acked EXCEPT ![w] = @ + 1]
                  /\ hist' = [hist EXCEPT !.w[w].lastDone = b,
                                          !.expectedUnspent = LedgerAfter(@, b)]
                  /\ UNCHANGED inflight
             ELSE /\ inflight' = [inflight EXCEPT ![w] = b]
                  /\ hist' = [hist EXCEPT !.expectedUnspent = LedgerAfter(@, b)]
                  /\ UNCHANGED acked
  /\ UNCHANGED fs
  /\ UNCHANGED <<store, sections, pc, cfg, memVars, loadVars, initVars,
                 batchOps, feVars, emitted, uncaught>>

\* ------------------------------------------------------------ filter steps
\* new FilterStream(keyStore)
NewFilterStream(keys, has) ==
  /\ fs.pc = "new"
  /\ fs' = [fs EXCEPT !.pc = "idle", !.keys = keys, !.hasDerive = has]
  /\ UNCHANGED walletVars

\* _transform(block): getRelevant starts for every transaction, and whatever
\* needs no lookup is through before _transform returns
Transform(block) ==
  /\ fs.pc = "idle"
  /\ fs' = TransformSettled(
             [fs EXCEPT !.pc = "busy", !.block = block,
                        !.txs = [t \in DOMAIN block.transactions |->
                                   StartTx(block.transactions[t])]])
  /\ UNCHANGED walletVars

\* the get of getInputKey returns, with a value or notFound
InputLookupReturn(t, i) ==
  /\ t \in DOMAIN fs.txs
  /\ fs.txs[t].stage = "ins"
  /\ i \in fs.txs[t].inflight
  /\ LET input == fs.block.transactions[t].ins[i]
         index == ToNumber(fs.keys[ToBase64(input.script.data)])
     IN \E k \in FilterDerive(fs.hasDerive, index) :
          fs' = IF k = Throws THEN ItemThrew(fs, t, i)
                ELSE ItemDone(fs, t, i,
                       <<ObjectAssign([key |-> k, index |-> i - 1], input)>>)
  /\ UNCHANGED walletVars

\* the get of getInputKey fails
InputLookupIoError(t, i) ==
  /\ t \in DOMAIN fs.txs
  /\ fs.txs[t].stage = "ins"
  /\ i \in fs.txs[t].inflight
  /\ fs' = ItemFailed(fs, t, i)
  /\ UNCHANGED walletVars

\* the get of getOutputKey returns, with a value or notFound
OutputLookupReturn(t, i) ==
  /\ t \in DOMAIN fs.txs
  /\ fs.txs[t].stage = "outs"
  /\ i \in fs.txs[t].inflight
  /\ LET output == fs.block.transactions[t].outs[i]
         index == ToNumber(fs.keys[ToBase64(output.script.data)])
     IN \E k \in FilterDerive(fs.hasDerive, index) :
          fs' = IF k = Throws THEN ItemThrew(fs, t, i)
                ELSE ItemDone(fs, t, i,
                       <<ObjectAssign([key |-> [key |-> k, index |-> index],
                                       index |-> i - 1], output)>>)
  /\ UNCHANGED walletVars

\* the get of getOutputKey fails
OutputLookupIoError(t, i) ==
  /\ t \in DOMAIN fs.txs
  /\ fs.txs[t].stage = "outs"
  /\ i \in fs.txs[t].inflight
  /\ fs' = ItemFailed(fs, t, i)
  /\ UNCHANGED walletVars

\* ----------------------------------------------------------- specification
\* startup of wallet w, constructed with arguments drawn from the given sets
Startup(w, paramSet, optSet) ==
  \/ \E params \in paramSet, db \in BOOLEAN, opts \in optSet :
        Construct(w, params, db, opts)
  \/ \E k \in MetaKeys : LoadGetValue(w, k)
  \/ \E k \in MetaKeys : LoadGetNotFound(w, k)
  \/ \E k \in MetaKeys : LoadGetIoError(w, k)
  \/ \E k \in MetaKeys : InitGetReturn(w, k)
  \/ \E k \in MetaKeys : InitGetIoError(w, k)
  \/ \E seed \in Seeds : RandomBytesOk(w, seed)
  \/ RandomBytesErr(w)
  \/ BatchOk(w)
  \/ BatchErr(w)

\* filterElements calls on wallet w and the returns of their puts
Filtering(w) ==
  \/ FilterElements(w)
  \/ \E i \in 1..MaxCalls : PutOk(w, i)
  \/ \E i \in 1..MaxCalls : PutErr(w, i)

\* one wallet owns the store
Next == \E w \in {1} : Startup(w, ParamCases, OptsCases) \/ Filtering(w)
Spec == Init /\ [][Next]_vars

\* one wallet, constructed with a look-ahead of one, owns the store and is
\* fed blocks
NextBlocks ==
  \E w \in {1} :
     \/ Startup(w, ParamCases, {OneAhead})
     \/ Filtering(w)
     \/ \E b \in Blocks : StreamWrite(w, b)
SpecBlocks == Init /\ [][NextBlocks]_vars

\* the store answers every put it was handed
PutReturns(w) == \E i \in 1..MaxCalls : PutOk(w, i) \/ PutErr(w, i)
NextAnswered ==
  \E w \in {1} : Startup(w, ParamCases, {OneAhead}) \/ Filtering(w)
FairSpec ==
  Init /\ [][NextAnswered]_vars /\ \A w \in {1} : WF_vars(PutReturns(w))

\* the wallet, its store and the stream keep taking steps while one is
\* possible
FairSpecBlocks == SpecBlocks /\ WF_vars(NextBlocks)

\* one FilterStream over a key store, handed one block
InitFilter == InitWith({[k \in MetaKeys |-> Undefined]})
NextFilter ==
  \/ \E keys \in KeyStores, has \in BOOLEAN : NewFilterStream(keys, has)
  \/ \E b \in FilterBlocks : Transform(b)
  \/ \E t \in 1..MaxTxs, i \in Positions : InputLookupReturn(t, i)
  \/ \E t \in 1..MaxTxs, i \in Positions : InputLookupIoError(t, i)
  \/ \E t \in 1..MaxTxs, i \in Positions : OutputLookupReturn(t, i)
  \/ \E t \in 1..MaxTxs, i \in Positions : OutputLookupIoError(t, i)
SpecFilter == InitFilter /\ [][NextFilter]_vars

\* two wallets opened on the same, initially empty, store
InitTwo == InitWith({[k \in MetaKeys |-> Undefined]})
NextTwo ==
  \E w \in Wallets :
     Startup(w, {[given |-> TRUE, props |-> ParamProps]}, {DefaultOpts})
SpecTwo == InitTwo /\ [][NextTwo]_vars

\* ------------------------------------------------------------- properties
Present(m) == {k \in MetaKeys : m[k] # Undefined}
Constructed(w) == pc[w] \notin {"new", "threw"}
ReadsReturned(w) == loadPending[w] = {} /\ initPending[w] = {}
NoPutCommitted(w) == \A i \in DOMAIN feDone[w] : feDone[w][i].err
ValidArgs(c) == c.params.given /\ ParamProps \subseteq c.params.props /\ c.db

\* C1: a wallet opened on a store holding exactly one or two of the three
\* meta records never emits 'ready', never issues the batch, leaves the
\* three records as they were, and has emitted 'error' once every read it
\* issued has returned.
C1_PartialStoreFails ==
  \A w \in Wallets :
    (Cardinality(Present(hist.store0)) \in {1, 2} /\ Constructed(w)) =>
      /\ emitted[w].ready = 0
      /\ ~ready[w]
      /\ hist.w[w].batches = 0
      /\ batchOps[w] = {}
      /\ store = hist.store0
      /\ (ReadsReturned(w) => emitted[w].error >= 1)

C1_Witness ==
  /\ Cardinality(Present(hist.store0)) = 2
  /\ hist.w[1].initRan
  /\ ~hist.w[1].ioFailed
  /\ ReadsReturned(1)
  /\ emitted[1].error = 1

\* C2 (as claimed): once the store holds a 'key' record, no step of any
\* wallet's initialization replaces it with another one.
C2_KeyNeverOverwritten ==
  [][store["key"] # Undefined => store'["key"] = store["key"]]_vars

\* C3: on a store that was empty, the meta section holds all three records
\* or none in every state, and until a later put of the cursor commits the
\* stored cursor is height 0, hash null, 0 keys derived, 0 keys seen.
C3_FirstRunAtomic ==
  Present(hist.store0) = {} =>
    /\ Present(store) \in {{}, MetaKeys}
    /\ \A w \in Wallets :
         (emitted[w].ready > 0 /\ NoPutCommitted(w)) =>
           /\ store["sync"].height = 0
           /\ store["sync"].hash = <<>>
           /\ store["sync"].derived = 0
           /\ store["sync"].seen = 0

C3_Witness ==
  /\ Present(hist.store0) = {}
  /\ Present(store) = MetaKeys
  /\ emitted[1].ready = 1
  /\ feDone[1] = <<>>

\* C4: a wallet opened on a store holding all three records never runs
\* _initializeMeta, asks for no seed and issues no batch; 'info' and 'key'
\* stay as stored, 'sync' stays as stored until a put of filterElements
\* commits; and the cursor it holds when 'ready' fires is the stored one.
C4_ReopenResumes ==
  \A w \in Wallets :
    (Present(hist.store0) = MetaKeys /\ Constructed(w)) =>
      /\ ~hist.w[w].initRan
      /\ hist.w[w].seeds = 0
      /\ hist.w[w].batches = 0
      /\ store["info"] = hist.store0["info"]
      /\ store["key"] = hist.store0["key"]
      /\ (NoPutCommitted(w) => store["sync"] = hist.store0["sync"])
      /\ (emitted[w].ready > 0 =>
            /\ hist.w[w].readyCursor = hist.store0["sync"]
            /\ (feCalls[w] = 0 => sync[w] = store["sync"]))

C4_Witness ==
  /\ Present(hist.store0) = MetaKeys
  /\ hist.store0["sync"].derived = 1
  /\ emitted[1].ready = 1
  /\ sync[1].derived = 1

\* C5 (as claimed): a wallet that initialized an empty store and is ready
\* holds a cursor with keys seen = 0 and keys derived >= lookAhead.
C5_FreshWalletLooksAhead ==
  \A w \in Wallets :
    (ready[w] /\ hist.w[w].initRan) =>
      /\ sync[w].seen = 0
      /\ sync[w].derived >= lookAhead[w]

\* C6 (as claimed): once a startup read, the seed generation or the batch
\* of a wallet has failed, no step emits 'ready' for that wallet.
C6_FailureBlocksReady ==
  [][\A w \in Wallets :
       hist.w[w].ioFailed => emitted'[w].ready = emitted[w].ready]_vars

\* C7: a constructor call with params missing, a required property absent
\* or no db throws, and issues no store operation and emits no event.
C7_ConfigErrorsThrowBeforeIO ==
  \A w \in Wallets :
    (cfg[w] # Undefined /\ ~ValidArgs(cfg[w])) =>
      /\ pc[w] = "threw"
      /\ ~hist.w[w].ioIssued
      /\ ReadsReturned(w)
      /\ batchOps[w] = {}
      /\ putQ[w] = <<>>
      /\ emitted[w] = [ready |-> 0, error |-> 0]

C7_Witness ==
  /\ pc[1] = "threw"
  /\ cfg[1].db
  /\ cfg[1].params.given
  /\ cfg[1].params.props = ParamProps \ {"wif"}

\* C8 (as claimed): after a block without transactions was processed, the
\* cursor carries that block's height and hash and the unspent,
\* transactions, blocks and keys sections are as before.
C8_EmptyBlockAdvancesCursor ==
  \A w \in Wallets :
    hist.w[w].lastDone # Undefined =>
      /\ sync[w].height = hist.w[w].lastDone.height
      /\ sync[w].hash = hist.w[w].lastDone.hash
      /\ sections = [u |-> {}, t |-> {}, k |-> {}, b |-> {}]

\* C9 (as claimed): the unspent section holds exactly the relevant outputs
\* of the blocks handed to _processBlock that no later such block spent.
C9_UnspentTracksLedger == sections.u = hist.expectedUnspent

\* C10 (as claimed): a filterElements call on a ready wallet leaves the
\* cursor's keys.derived as it was and issues no store write.
C10_FilterElementsNoSideEffect ==
  [][\A w \in Wallets :
       (ready[w] /\ feCalls'[w] # feCalls[w]) =>
         /\ sync'[w].derived = sync[w].derived
         /\ putQ'[w] = putQ[w]]_vars

\* C11: every successful filterElements of a wallet with keys seen = u and
\* look-ahead L returned 2 * (u + L) elements, the public key and then the
\* identifier of child i of the derive key for i = 0 .. u + L - 1 in
\* increasing order, no element twice.
C11_FilterElementsExact ==
  \A w \in Wallets : \A c \in DOMAIN feDone[w] :
    ~feDone[w][c].err =>
      LET e == feDone[w][c].elements
          n == sync[w].seen + lookAhead[w]
      IN /\ Len(e) = 2 * n
         /\ \A i \in 0..(n - 1) :
              /\ e[2 * i + 1] = GetPublicKeyBuffer(Derive(DeriveHardened(key[w], 0), i))
              /\ e[2 * i + 2] = GetIdentifier(Derive(DeriveHardened(key[w], 0), i))
         /\ Cardinality({e[a] : a \in DOMAIN e}) = Len(e)

C11_Witness ==
  /\ lookAhead[1] = 2
  /\ Len(feDone[1]) = 2
  /\ ~feDone[1][1].err
  /\ ~feDone[1][2].err
  /\ Len(feDone[1][2].elements) = 4

\* C14 (as claimed): once the put of a cursor update has failed and the
\* failure was handed to the caller, the in-memory keys.derived equals the
\* one in the persisted 'sync' record.
C14_PutFailureRollsBack ==
  \A w \in Wallets :
    (/\ ready[w]
     /\ putQ[w] = <<>>
     /\ feDone[w] # <<>>
     /\ feDone[w][Len(feDone[w])].err) =>
      sync[w].derived = store["sync"].derived

\* C15: no step lowers the height or the keys-seen count of the persisted
\* cursor, whatever the order of the blocks written and the calls made.
C15_CursorMonotonic ==
  [][(store["sync"] # Undefined /\ store'["sync"] # Undefined) =>
       /\ store'["sync"].height >= store["sync"].height
       /\ store'["sync"].seen >= store["sync"].seen]_vars

C15_Witness ==
  /\ hist.store0["sync"] = AdvancedSync
  /\ inflight[1] # Undefined
  /\ inflight[1].height = 2
  /\ Len(buffered[1]) = 1
  /\ buffered[1][1].height = 1
  /\ ~NoPutCommitted(1)
  /\ store["sync"].height = 1

\* C16: before a wallet is ready none of its filterElements calls has
\* derived a key, issued a put or run its callback; every call is parked,
\* has its put in flight or has run its callback once, never two of these;
\* after a failed startup no callback has run; and once the wallet is ready
\* every call made so far, parked ones included, eventually has run its
\* callback.
C16_FilterElementsAfterReady ==
  /\ [](\A w \in Wallets :
         /\ ~ready[w] =>
              /\ putQ[w] = <<>>
              /\ feDone[w] = <<>>
              /\ (sync[w] # Undefined => sync[w].derived = 0)
         /\ feCalls[w] = waiters[w] + Len(putQ[w]) + Len(feDone[w])
         /\ emitted[w].error > 0 => (putQ[w] = <<>> /\ feDone[w] = <<>>))
  /\ \A w \in Wallets :
       ready[w] ~> (waiters[w] = 0 /\ Len(feDone[w]) = feCalls[w])

C16_Witness ==
  /\ hist.w[1].parked = 1
  /\ ready[1]
  /\ feCalls[1] = 2
  /\ Len(feDone[1]) = 2
  /\ ~feDone[1][1].err

\* C17 (as claimed): a block handed to _processBlock is eventually
\* acknowledged, so the stream is free for the next one.
C17_EveryBlockAcknowledged ==
  \A w \in Wallets : (inflight[w] # Undefined) ~> (inflight[w] = Undefined)

\* C18: a wallet never emits more than one event of 'ready' and 'error'
\* taken together, and has emitted exactly one once no read, seed request
\* or batch of its startup is outstanding.
C18_OneOutcome ==
  \A w \in Wallets :
    /\ emitted[w].ready + emitted[w].error <= 1
    /\ (/\ Constructed(w)
        /\ ReadsReturned(w)
        /\ pc[w] \notin {"seeding", "writing"}) =>
          emitted[w].ready + emitted[w].error = 1

C18_Witness ==
  /\ uncaught[1] = 2
  /\ ReadsReturned(1)
  /\ emitted[1] = [ready |-> 0, error |-> 1]

\* where an entry of relevant.ins stands among the inputs of its transaction
InputPosition(tx, e) ==
  CHOOSE i \in DOMAIN tx.ins : tx.ins[i].hash = e.hash /\ tx.ins[i].index = e.index
TxPosition(block, tx) == CHOOSE t \in DOMAIN block.transactions : block.transactions[t] = tx
BlockEmitted == fs.result # Undefined /\ ~fs.result.err

C13_RetainedIffRelevant ==
  BlockEmitted =>
    LET txs == fs.block.transactions
        rel == fs.result.relevant
    IN /\ fs.result.block = fs.block
       /\ \A t \in DOMAIN txs :
            Cardinality({j \in DOMAIN rel : rel[j].tx = txs[t]}) =
              IF fs.txs[t].ins # <<>> \/ fs.txs[t].outs # <<>> THEN 1 ELSE 0
       /\ \A j \in DOMAIN rel :
            \E t \in DOMAIN txs :
               /\ rel[j].tx = txs[t]
               /\ rel[j].relevant = [ins |-> fs.txs[t].ins, outs |-> fs.txs[t].outs]

C13_Witness ==
  /\ BlockEmitted
  /\ Len(fs.block.transactions) = 2
  /\ Len(fs.result.relevant) = 1
  /\ fs.result.relevant[1].tx = fs.block.transactions[2]
  /\ fs.keys = KeyStoreOf(KeyNames)
  /\ fs.result.relevant[1].relevant.ins = <<>>
  /\ Len(fs.result.relevant[1].relevant.outs) = 2

====
